---- MODULE Spec2Model ----
(***************************************************************************)
(* A model of solve_12.py: the moons of Jupiter under integer gravity.     *)
(* Vector3 / Moon / System are modelled as values and operators on them,   *)
(* the two drivers (PART 1, PART 2) as a state machine with one action per *)
(* statement of the script.                                                *)
(***************************************************************************)
EXTENDS Integers, Sequences, FiniteSets

VARIABLES
    parsed,    \* the Vector3 list read from the input file (line 122)
    moons,     \* the list of Moon objects (line 123), shared by both Systems
    step,      \* jupiter.step
    pc,        \* the statement of the script that runs next
    i,         \* iterations of the PART 1 loop completed so far
    part1,     \* part1 (line 128)
    history,   \* history: axis -> set of axis states; del removes the axis
    period,    \* period: a list of three entries, None or a step count
    part2,     \* part2 (line 147)
    args,      \* the operands of a call of lcm / lcms
    ret,       \* the value that call returned
    heap       \* the Vector3 objects, where the objects themselves are modelled

vars == <<parsed, moons, step, pc, i, part1, history, period, part2, args, ret, heap>>

----------------------------------------------------------------------------
(* Bounds of the model.                                                    *)

\* the input file holds 1..MaxMoons lines
MaxMoons == 2
\* the coordinates of the input are naturals whose total is at most MaxWeight
MaxWeight == 3
\* PART 2 is cut off after this many advances (never reached when it ends)
MaxStep == 40

\* a System in any state holds 1..MaxSysMoons moons
MaxSysMoons == 3
\* its positions and velocities are integers whose absolute values total at
\* most MaxSysWeight
MaxSysWeight == 2
\* and it is followed for MaxCalls calls of each method
MaxCalls == 2
\* lcm and lcms are called on 1..MaxOperand, besides three larger operands
MaxOperand == 4

\* the most comma-separated fields of an input line
MaxFields == 4

\* with the Vector3 objects modelled, the System has 1..MaxHeapMoons moons
\* whose coordinates sum to at most MaxHeapWeight, and apply_gravity() and
\* tick() are each called at most MaxHeapCalls times
MaxHeapMoons == 3
MaxHeapWeight == 1
MaxHeapCalls == 2

\* the loop body (apply_gravity(), tick()) is run on a System of
\* 1..MaxLoopMoons moons whose coordinates have absolute values summing to at
\* most MaxLoopWeight, at most MaxLoopSteps times
MaxLoopMoons == 3
MaxLoopWeight == 1
MaxLoopSteps == 2

\* the loop of PART 1 with one iteration too few
Part1StepsOneShort == 1000 - 1

\* range(1000), line 125
Part1Steps == 1000

----------------------------------------------------------------------------
(* Python's None and an int held in a slot that may be None.               *)

None == << >>
Some(k) == <<k>>

----------------------------------------------------------------------------
(* class Vector3                                                           *)

Vector3(x, y, z) == [x |-> x, y |-> y, z |-> z]

ZeroVec == Vector3(0, 0, 0)

add(a, b) == Vector3(a.x + b.x, a.y + b.y, a.z + b.z)

sub(a, b) == Vector3(a.x - b.x, a.y - b.y, a.z - b.z)

Sign1(t) == IF t < 0 THEN -1 ELSE IF t = 0 THEN 0 ELSE 1

sign(v) == Vector3(Sign1(v.x), Sign1(v.y), Sign1(v.z))

Abs(t) == IF t < 0 THEN -t ELSE t

----------------------------------------------------------------------------
(* class Moon                                                              *)

Moon(position) == [position |-> position, velocity |-> ZeroVec]

\* move() with the velocity taken off the position
move_back(m) == [m EXCEPT !.position = sub(m.position, m.velocity)]

move(m) == [m EXCEPT !.position = add(m.position, m.velocity)]

potential_energy(m) == Abs(m.position.x) + Abs(m.position.y) + Abs(m.position.z)

\* kinetic_energy() without abs: the sum of the velocity's coordinates
kinetic_energy_signed(m) == m.velocity.x + m.velocity.y + m.velocity.z

kinetic_energy(m) == Abs(m.velocity.x) + Abs(m.velocity.y) + Abs(m.velocity.z)

total_energy(m) == potential_energy(m) * kinetic_energy(m)

----------------------------------------------------------------------------
(* class System: its methods as operators on the list of moons.            *)

\* itertools.combinations(range(1, n+1), 2), in its order
RECURSIVE PairsFrom(_, _, _)
PairsFrom(a, b, n) ==
    IF a >= n THEN << >>
    ELSE IF b > n THEN PairsFrom(a + 1, a + 2, n)
    ELSE << <<a, b>> >> \o PairsFrom(a, b + 1, n)

\* itertools.permutations(range(1, n+1), 2): every ordered pair
permutations(n) ==
    LET idx == [k \in 1..(n * (n - 1)) |->
                    <<((k - 1) \div (n - 1)) + 1, ((k - 1) % (n - 1)) + 1>>]
    IN  [k \in 1..(n * (n - 1)) |->
            <<idx[k][1], IF idx[k][2] >= idx[k][1] THEN idx[k][2] + 1 ELSE idx[k][2]>>]

combinations(n) == PairsFrom(1, 2, n)

\* the body of the loop with the sign of line 68 turned: m2.velocity -= diff.sign()
GravityPairSameSign(ms, pr) ==
    LET diff == sub(ms[pr[1]].position, ms[pr[2]].position)
    IN  [ms EXCEPT ![pr[1]].velocity = sub(@, sign(diff)),
                   ![pr[2]].velocity = sub(@, sign(diff))]

\* the body of the loop with the sign of the x difference used for every axis
GravityPairCoupled(ms, pr) ==
    LET d == Sign1(ms[pr[1]].position.x - ms[pr[2]].position.x)
    IN  [ms EXCEPT ![pr[1]].velocity = sub(@, Vector3(d, d, d)),
                   ![pr[2]].velocity = add(@, Vector3(d, d, d))]

\* the body of the loop with the difference taken between the positions the
\* two moons would move to
GravityPairMoving(ms, pr) ==
    LET diff == sub(add(ms[pr[1]].position, ms[pr[1]].velocity),
                    add(ms[pr[2]].position, ms[pr[2]].velocity))
    IN  [ms EXCEPT ![pr[1]].velocity = sub(@, sign(diff)),
                   ![pr[2]].velocity = add(@, sign(diff))]

\* the body of the loop of apply_gravity for the pair (m1, m2) = (ms[pr[1]], ms[pr[2]])
GravityPair(ms, pr) ==
    LET diff == sub(ms[pr[1]].position, ms[pr[2]].position)
    IN  [ms EXCEPT ![pr[1]].velocity = sub(@, sign(diff)),
                   ![pr[2]].velocity = add(@, sign(diff))]

RECURSIVE GravityLoop(_, _)
GravityLoop(ms, prs) ==
    IF prs = << >> THEN ms
    ELSE GravityLoop(GravityPair(ms, Head(prs)), Tail(prs))

apply_gravity(ms) == GravityLoop(ms, combinations(Len(ms)))

\* tick() moving the first moon only
tick_first(ms) == [k \in 1..Len(ms) |-> IF k = 1 THEN move(ms[k]) ELSE ms[k]]

\* the moons after tick(); the step counter is advanced by the action
tick(ms) == [k \in 1..Len(ms) |-> move(ms[k])]

RECURSIVE SumEnergy(_, _)
SumEnergy(ms, k) ==
    IF k = 0 THEN 0 ELSE total_energy(ms[k]) + SumEnergy(ms, k - 1)

energy(ms) == SumEnergy(ms, Len(ms))

state(ms) ==
    << [k \in 1..Len(ms) |-> <<ms[k].position.x, ms[k].velocity.x>>],
       [k \in 1..Len(ms) |-> <<ms[k].position.y, ms[k].velocity.y>>],
       [k \in 1..Len(ms) |-> <<ms[k].position.z, ms[k].velocity.z>>] >>

----------------------------------------------------------------------------
(* Python's int is unbounded and its float is an IEEE double.  An int >= 0 *)
(* is modelled as the sequence of its digits in base Base, least           *)
(* significant first, with no leading zero (0 is the empty sequence); a    *)
(* float >= 0 as a mantissa m and an exponent e, standing for m * 2^e.     *)

\* the bits of a double's mantissa (sys.float_info.mant_dig)
MantDig == 53

DigitBits == 8
Base == 2 ^ DigitBits

\* Python computes a value before it uses it: v is computed, then e
Then(v, e) == IF v = v THEN e ELSE e

\* the largest element of a non-empty set of integers
Max(S) == CHOOSE x \in S : \A y \in S : y <= x

\* a without its leading zeros
Trim(a) ==
    LET nz == {k \in 1..Len(a) : a[k] # 0}
    IN  IF nz = {} THEN << >> ELSE SubSeq(a, 1, Max(nz))

\* the digits of n, 0 <= n < 2^31
ToBig(n) == Trim([k \in 1..4 |-> (n \div Base ^ (k - 1)) % Base])

DigitAt(a, k) == IF 1 <= k /\ k <= Len(a) THEN a[k] ELSE 0

\* the carry of a + b into position k: a position below k overflows and every
\* position between passes the carry on
Carry(a, b, k) ==
    \E j \in 1..(k - 1) :
        /\ DigitAt(a, j) + DigitAt(b, j) >= Base
        /\ \A l \in (j + 1)..(k - 1) : DigitAt(a, l) + DigitAt(b, l) = Base - 1

BigAdd(a, b) ==
    LET n == (IF Len(a) > Len(b) THEN Len(a) ELSE Len(b)) + 1
    IN  Trim([k \in 1..n |->
                (DigitAt(a, k) + DigitAt(b, k)
                    + (IF Carry(a, b, k) THEN 1 ELSE 0)) % Base])

\* the borrow of a - b from position k
Borrow(a, b, k) ==
    \E j \in 1..(k - 1) :
        /\ DigitAt(a, j) < DigitAt(b, j)
        /\ \A l \in (j + 1)..(k - 1) : DigitAt(a, l) = DigitAt(b, l)

\* a - b for a >= b
BigSub(a, b) ==
    Trim([k \in 1..Len(a) |->
            (a[k] - DigitAt(b, k) - (IF Borrow(a, b, k) THEN 1 ELSE 0) + Base) % Base])

BigLess(a, b) ==
    IF Len(a) # Len(b) THEN Len(a) < Len(b)
    ELSE LET diff == {k \in 1..Len(a) : a[k] # b[k]}
         IN  diff # {} /\ a[Max(diff)] < b[Max(diff)]

\* a * Base^n
ShiftDigits(a, n) == IF a = << >> THEN a ELSE [k \in 1..n |-> 0] \o a

\* a * m for a small m, 0 <= m <= Base: the low digits of the products
\* a[k] * m, plus their high digits one position up
MulSmall(a, m) ==
    BigAdd([k \in 1..Len(a) |-> (a[k] * m) % Base],
           ShiftDigits(Trim([k \in 1..Len(a) |-> (a[k] * m) \div Base]), 1))

RECURSIVE BigMul(_, _)
BigMul(a, b) ==
    IF b = << >> THEN << >>
    ELSE LET low  == MulSmall(a, Head(b))
             rest == BigMul(a, Tail(b))
         IN  Then(<<rest, low>>, BigAdd(low, ShiftDigits(rest, 1)))

\* a * 2^n
ShiftLeft(a, n) == ShiftDigits(MulSmall(a, 2 ^ (n % DigitBits)), n \div DigitBits)

\* a \div 2^n
ShiftRight(a, n) ==
    LET w == n \div DigitBits
        j == n % DigitBits
    IN  Trim([k \in 1..(Len(a) - w) |->
                ((DigitAt(a, k + w) + Base * DigitAt(a, k + w + 1)) \div 2 ^ j) % Base])

\* the number of bits of v, for 0 <= v < Base
SmallBits(v) == Cardinality({b \in 0..(DigitBits - 1) : 2 ^ b <= v})

\* a.bit_length()
BitLength(a) ==
    IF a = << >> THEN 0 ELSE DigitBits * (Len(a) - 1) + SmallBits(a[Len(a)])

\* the value of the digits of a from position k up (at most three of them)
TopDigits(a, k) ==
    DigitAt(a, k) + Base * DigitAt(a, k + 1) + Base * Base * DigitAt(a, k + 2)

\* r \div d for 0 <= r < d * Base: the quotient of the leading digits is the
\* digit or one more than it
QuoDigit(r, d) ==
    LET k    == IF Len(d) = 1 THEN 1 ELSE Len(d) - 1
        qhat == TopDigits(r, k) \div TopDigits(d, k)
        p    == MulSmall(d, qhat)
    IN  Then(<<qhat, p>>, IF BigLess(r, p) THEN qhat - 1 ELSE qhat)

\* one step of the long division of n by d: the digit of n at position k is
\* brought down to the remainder st.r, st.q is the quotient so far
DivStep(n, d, k, st) ==
    LET r1 == Trim(<<n[k]>> \o st.r)
        t  == QuoDigit(r1, d)
        p  == MulSmall(d, t)
    IN  Then(<<r1, t, p>>, [q |-> <<t>> \o st.q, r |-> BigSub(r1, p)])

\* the steps for the digits of n at positions hi down to lo, from st with st.r < d
RECURSIVE DivRange(_, _, _, _, _)
DivRange(n, d, hi, lo, st) ==
    IF hi < lo THEN st
    ELSE IF hi = lo THEN DivStep(n, d, lo, st)
    ELSE LET mid  == (hi + lo) \div 2
             high == DivRange(n, d, hi, mid + 1, st)
         IN  Then(high, DivRange(n, d, mid, lo, high))

\* n \div d and n % d for d > 0
DivMod(n, d) ==
    LET dm == DivRange(n, d, Len(n), 1, [q |-> << >>, r |-> << >>])
    IN  Then(<<n, d, dm>>, [q |-> Trim(dm.q), r |-> dm.r])

\* math.gcd
RECURSIVE gcd(_, _)
gcd(a, b) == IF b = << >> THEN a ELSE gcd(b, DivMod(a, b).r)

\* the mantissa of the double nearest to q + (a fraction in [0, 1), 0 if exact)
\* for q of more than MantDig bits: q's leading MantDig bits m, the sh bits
\* below them decide the rounding, a tie going to the even mantissa
round_half_even(q, m, sh, exact) ==
    LET low  == BigSub(q, ShiftLeft(m, sh))
        half == ShiftLeft(<<1>>, sh - 1)
    IN  IF \/ BigLess(half, low)
           \/ low = half /\ (~exact \/ m[1] % 2 = 1)
        THEN BigAdd(m, <<1>>) ELSE m

\* the double nearest to (dm.q + dm.r / d) * 2^(0 - s), dm.q of sh + MantDig bits
nearest(dm, sh, s) ==
    IF sh <= 0 THEN [m |-> dm.q, e |-> 0 - s]
    ELSE [m |-> round_half_even(dm.q, ShiftRight(dm.q, sh), sh, dm.r = << >>),
          e |-> sh - s]

\* the quotient of n * 2^s by d as a double times 2^(0 - s)
scaled_div(n, d, s) ==
    Then(<<n, d>>, LET dm == DivMod(ShiftLeft(n, s), d)
                   IN  Then(dm, nearest(dm, BitLength(dm.q) - MantDig, s)))

\* n / d for ints n, d > 0: the double nearest to the exact quotient, ties to
\* even; the quotient is scaled to more than MantDig bits unless it is exact
float_div(n, d) ==
    LET dm   == DivMod(n, d)
        want == MantDig + 1 + BitLength(d) - BitLength(n)
    IN  Then(<<n, d, dm>>,
             IF dm.r = << >> \/ want <= 0
             THEN nearest(dm, BitLength(dm.q) - MantDig, 0)
             ELSE scaled_div(n, d, want))

\* int(f) for a float f >= 0: truncation
to_int(f) == IF f.e >= 0 THEN ShiftLeft(f.m, f.e) ELSE ShiftRight(f.m, 0 - f.e)

lcm(a, b) ==
    LET g == gcd(a, b)
        p == BigMul(a, b)
    IN  Then(<<a, b, g, p>>, to_int(float_div(p, g)))

\* reduce(lcm, numbers) for a non-empty tuple of numbers
RECURSIVE Reduce(_, _)
Reduce(acc, numbers) ==
    IF numbers = << >> THEN acc
    ELSE Reduce(lcm(acc, Head(numbers)), Tail(numbers))

lcms(numbers) == Reduce(Head(numbers), Tail(numbers))

----------------------------------------------------------------------------
(* The inputs the model is run on.                                         *)

\* the tuples of n naturals whose sum is at most w
RECURSIVE NatTuples(_, _)
NatTuples(n, w) ==
    IF n = 0 THEN {<< >>}
    ELSE UNION {{<<c>> \o t : t \in NatTuples(n - 1, w - c)} : c \in 0..w}

\* the tuples of n integers whose absolute values sum to at most w
RECURSIVE IntTuples(_, _)
IntTuples(n, w) ==
    IF n = 0 THEN {<< >>}
    ELSE UNION {{<<c>> \o t : t \in IntTuples(n - 1, w - Abs(c))} : c \in (0 - w)..w}

\* the input file: 1..MaxMoons positions
Inputs ==
    UNION {{[k \in 1..n |-> Vector3(t[3 * k - 2], t[3 * k - 1], t[3 * k])] :
                t \in NatTuples(3 * n, MaxWeight)} : n \in 1..MaxMoons}

\* a System in any state: 1..MaxSysMoons moons, any positions and velocities
AnyMoons ==
    UNION {{[k \in 1..n |->
                [position |-> Vector3(t[6 * k - 5], t[6 * k - 4], t[6 * k - 3]),
                 velocity |-> Vector3(t[6 * k - 2], t[6 * k - 1], t[6 * k])]] :
                t \in IntTuples(6 * n, MaxSysWeight)} : n \in 1..MaxSysMoons}

\* the Systems the loop body is run on
LoopMoons ==
    UNION {{[k \in 1..n |->
                [position |-> Vector3(t[6 * k - 5], t[6 * k - 4], t[6 * k - 3]),
                 velocity |-> Vector3(t[6 * k - 2], t[6 * k - 1], t[6 * k])]] :
                t \in IntTuples(6 * n, MaxLoopWeight)} : n \in 1..MaxLoopMoons}

\* the periods line 147 is run on: small ones, and the periods of the x, y and
\* z axes of the moons <x=-16, y=14, z=16>, <x=20, y=-10, z=-5>,
\* <x=-17, y=12, z=-19>, <x=-1, y=-19, z=10>
LcmOperands == (1..MaxOperand) \cup {1855954, 306972, 1089570}

----------------------------------------------------------------------------
(* The script, lines 118-147.                                              *)

Axes == <<"x", "y", "z">>

\* bool(e) for an entry e of period: None and 0 are falsy
Truthy(e) == e # None /\ e[1] # 0

\* a test of line 143 that never holds
never(p) == FALSE

\* all(p)
all(p) == \A k \in 1..Len(p) : Truthy(p[k])

\* lines 118-124: the input is parsed, the moons and the first System are built
Init ==
    /\ parsed \in Inputs
    /\ moons = [k \in 1..Len(parsed) |-> Moon(parsed[k])]
    /\ step = 0
    /\ pc = "p1_gravity"
    /\ i = 0
    /\ part1 = None
    /\ history = << >>
    /\ period = << >>
    /\ part2 = None
    /\ args = << >>
    /\ ret = None
    /\ heap = << >>

\* line 126
P1Gravity ==
    /\ pc = "p1_gravity"
    /\ moons' = apply_gravity(moons)
    /\ pc' = "p1_tick"
    /\ UNCHANGED <<heap, parsed, step, i, part1, history, period, part2, args, ret>>

\* line 127, and the loop test of line 125
P1Tick ==
    /\ pc = "p1_tick"
    /\ step' = step + 1
    /\ moons' = tick(moons)
    /\ i' = i + 1
    /\ pc' = IF i + 1 < Part1Steps THEN "p1_gravity" ELSE "p1_energy"
    /\ UNCHANGED <<heap, parsed, part1, history, period, part2, args, ret>>

\* line 128
P1Energy ==
    /\ pc = "p1_energy"
    /\ part1' = Some(energy(moons))
    /\ pc' = "p2_reset"
    /\ UNCHANGED <<heap, parsed, moons, step, i, history, period, part2, args, ret>>

\* line 132 with the state the axis is in put into its set
SeenAtStart(a) == {state(moons)[CHOOSE n \in 1..3 : Axes[n] = a]}

\* line 132: the set() that history holds for axis a
NoneSeen(a) == {}

\* lines 131-133: System(moons) takes the list of Moon objects as it is
P2Reset ==
    /\ pc = "p2_reset"
    /\ step' = 0
    /\ history' = [a \in {"x", "y", "z"} |-> NoneSeen(a)]
    /\ period' = <<None, None, None>>
    /\ pc' = "p2_check"
    /\ UNCHANGED <<heap, parsed, moons, i, part1, part2, args, ret>>

\* line 139 storing the step after the one at which the duplicate is seen
RecordedNext == Some(step + 1)

\* line 139: the value stored in period[i]
Recorded == Some(step)

\* line 142 adding nothing: no state is ever seen again
AddedNothing(h, s) == h

\* line 142 leaving out the state of step 0
AddedAfterStart(h, s) == IF step = 0 THEN h ELSE h \cup {s}

\* line 142 keeping the newest state only
AddedAlone(h, s) == {s}

\* line 142: history[axis].add(s), for the set h that history[axis] is
Added(h, s) == h \cup {s}

\* lines 135-144
P2Check ==
    /\ pc = "p2_check"
    /\ LET st == state(moons)
           found(k) == period[k] = None /\ st[k] \in history[Axes[k]]
           fresh(k) == period[k] = None /\ st[k] \notin history[Axes[k]]
           p == [k \in 1..3 |-> IF found(k) THEN Recorded ELSE period[k]]
       IN  /\ period' = p
           /\ history' =
                [a \in {Axes[k] : k \in {n \in 1..3 : Axes[n] \in DOMAIN history /\ ~found(n)}} |->
                    LET k == CHOOSE n \in 1..3 : Axes[n] = a
                    IN  IF fresh(k) THEN Added(history[a], st[k]) ELSE history[a]]
           /\ pc' = IF all(p) THEN "p2_lcms" ELSE "p2_gravity"
    /\ UNCHANGED <<heap, parsed, moons, step, i, part1, part2, args, ret>>

\* line 145
P2Gravity ==
    /\ pc = "p2_gravity"
    /\ moons' = apply_gravity(moons)
    /\ pc' = "p2_tick"
    /\ UNCHANGED <<heap, parsed, step, i, part1, history, period, part2, args, ret>>

\* line 146
P2Tick ==
    /\ pc = "p2_tick"
    /\ step < MaxStep
    /\ step' = step + 1
    /\ moons' = tick(moons)
    /\ pc' = "p2_check"
    /\ UNCHANGED <<heap, parsed, i, part1, history, period, part2, args, ret>>

\* line 147
P2Lcms ==
    /\ pc = "p2_lcms"
    /\ part2' = lcms([k \in 1..3 |-> ToBig(period[k][1])])
    /\ pc' = "done"
    /\ UNCHANGED <<heap, parsed, moons, step, i, part1, history, period, args, ret>>

Next ==
    \/ P1Gravity
    \/ P1Tick
    \/ P1Energy
    \/ P2Reset
    \/ P2Check
    \/ P2Gravity
    \/ P2Tick
    \/ P2Lcms

Spec == Init /\ [][Next]_vars

----------------------------------------------------------------------------
(* A System in any state, its methods called in any order.                 *)

InitSys ==
    /\ moons \in AnyMoons
    /\ parsed = << >>
    /\ step = 0
    /\ pc = "sys"
    /\ i = 0
    /\ part1 = None
    /\ history = << >>
    /\ period = << >>
    /\ part2 = None
    /\ args = << >>
    /\ ret = None
    /\ heap = << >>

\* apply_gravity(), lines 64-68; i counts the calls
SysGravity ==
    /\ pc \in {"sys", "sys_gravity", "sys_tick"}
    /\ i < MaxCalls
    /\ moons' = apply_gravity(moons)
    /\ i' = i + 1
    /\ pc' = "sys_gravity"
    /\ UNCHANGED <<heap, parsed, step, part1, history, period, part2, args, ret>>

\* tick(), lines 72-75
SysTick ==
    /\ pc \in {"sys", "sys_gravity", "sys_tick"}
    /\ step < MaxCalls
    /\ step' = step + 1
    /\ moons' = tick(moons)
    /\ pc' = "sys_tick"
    /\ UNCHANGED <<heap, parsed, i, part1, history, period, part2, args, ret>>

NextSys ==
    \/ SysGravity
    \/ SysTick

SpecSys == InitSys /\ [][NextSys]_vars

----------------------------------------------------------------------------
(* The loop body of lines 126-127 and 145-146, on a System in any state.   *)

InitLoop ==
    /\ moons \in LoopMoons
    /\ parsed = << >>
    /\ step = 0
    /\ pc = "init"
    /\ i = 0
    /\ part1 = None
    /\ history = << >>
    /\ period = << >>
    /\ part2 = None
    /\ args = << >>
    /\ ret = None
    /\ heap = << >>

\* jupiter.apply_gravity()
LoopGravity ==
    /\ pc \in {"init", "loop_tick"}
    /\ step < MaxLoopSteps
    /\ moons' = apply_gravity(moons)
    /\ pc' = "loop_gravity"
    /\ UNCHANGED <<heap, parsed, step, i, part1, history, period, part2, args, ret>>

\* jupiter.tick()
LoopTick ==
    /\ pc = "loop_gravity"
    /\ step' = step + 1
    /\ moons' = tick(moons)
    /\ pc' = "loop_tick"
    /\ UNCHANGED <<heap, parsed, i, part1, history, period, part2, args, ret>>

NextLoop ==
    \/ LoopGravity
    \/ LoopTick

SpecLoop == InitLoop /\ [][NextLoop]_vars

----------------------------------------------------------------------------
(* The Vector3 objects themselves.  heap is the list of the Vector3        *)
(* objects made so far, a reference to an object is its index in heap, and *)
(* here the position and the velocity of a moon are references.            *)

\* m.field -= d or m.field += d, were Vector3 to define __isub__ and
\* __iadd__ changing the object in place: the object m.field gets the value v
AugmentedInPlace(st, k, field, v) ==
    [st EXCEPT !.heap[st.moons[k][field]] = v]

\* m.field -= d or m.field += d for the moon m = moons[k], v being the value
\* of m.field - d or m.field + d: Vector3 defines __sub__ and __add__ and no
\* __isub__ or __iadd__, so a new Vector3 is made and m.field is bound to it
Augmented(st, k, field, v) ==
    [heap |-> Append(st.heap, v),
     moons |-> [st.moons EXCEPT ![k][field] = Len(st.heap) + 1]]

\* lines 66-68 for the pair (m1, m2) = (moons[pr[1]], moons[pr[2]])
HeapGravityPair(st, pr) ==
    LET diff == sub(st.heap[st.moons[pr[1]].position], st.heap[st.moons[pr[2]].position])
        st1 == Augmented(st, pr[1], "velocity",
                         sub(st.heap[st.moons[pr[1]].velocity], sign(diff)))
    IN  Augmented(st1, pr[2], "velocity",
                  add(st1.heap[st1.moons[pr[2]].velocity], sign(diff)))

\* lines 65-68
RECURSIVE HeapGravityLoop(_, _)
HeapGravityLoop(st, prs) ==
    IF prs = << >> THEN st
    ELSE HeapGravityLoop(HeapGravityPair(st, Head(prs)), Tail(prs))

\* lines 73-74: moon.move() for the moons k..Len(st.moons)
RECURSIVE HeapMoveLoop(_, _)
HeapMoveLoop(st, k) ==
    IF k > Len(st.moons) THEN st
    ELSE HeapMoveLoop(Augmented(st, k, "position",
                                add(st.heap[st.moons[k].position],
                                    st.heap[st.moons[k].velocity])), k + 1)

\* the moons with the values of the objects they refer to
Deref(h, ms) ==
    [k \in 1..Len(ms) |->
        [position |-> h[ms[k].position], velocity |-> h[ms[k].velocity]]]

\* the input positions
HeapInputs ==
    UNION {{[k \in 1..n |-> Vector3(t[3 * k - 2], t[3 * k - 1], t[3 * k])] :
                t \in NatTuples(3 * n, MaxHeapWeight)} : n \in 1..MaxHeapMoons}

\* line 34 makes the default velocity once, when Moon.__init__ is defined;
\* lines 122-124 make a position for every moon and give every moon that
\* one default velocity
InitHeap ==
    /\ parsed \in HeapInputs
    /\ heap = <<ZeroVec>> \o parsed
    /\ moons = [k \in 1..Len(parsed) |-> [position |-> k + 1, velocity |-> 1]]
    /\ step = 0
    /\ pc = "init"
    /\ i = 0
    /\ part1 = None
    /\ history = << >>
    /\ period = << >>
    /\ part2 = None
    /\ args = << >>
    /\ ret = None

\* System.apply_gravity(); i counts the calls
HeapGravity ==
    /\ i < MaxHeapCalls
    /\ LET st == HeapGravityLoop([heap |-> heap, moons |-> moons],
                                 combinations(Len(moons)))
       IN  /\ heap' = st.heap
           /\ moons' = st.moons
    /\ i' = i + 1
    /\ pc' = "heap_gravity"
    /\ UNCHANGED <<parsed, step, part1, history, period, part2, args, ret>>

\* System.tick()
HeapTick ==
    /\ step < MaxHeapCalls
    /\ LET st == HeapMoveLoop([heap |-> heap, moons |-> moons], 1)
       IN  /\ heap' = st.heap
           /\ moons' = st.moons
    /\ step' = step + 1
    /\ pc' = "heap_tick"
    /\ UNCHANGED <<parsed, i, part1, history, period, part2, args, ret>>

NextHeap ==
    \/ HeapGravity
    \/ HeapTick

SpecHeap == InitHeap /\ [][NextHeap]_vars

----------------------------------------------------------------------------
(* Line 147 and the functions it calls, on any three periods.              *)

InitLcm ==
    /\ period \in {<<Some(a), Some(b), Some(c)>> :
                      a \in LcmOperands, b \in LcmOperands, c \in LcmOperands}
    /\ args = [k \in 1..3 |-> ToBig(period[k][1])]
    /\ ret = None
    /\ heap = << >>
    /\ pc = "p2_lcms"
    /\ parsed = << >>
    /\ moons = << >>
    /\ step = 0
    /\ i = 0
    /\ part1 = None
    /\ history = << >>
    /\ part2 = None

\* lcm(a, b), lines 108-110
CallLcm ==
    /\ pc = "p2_lcms"
    /\ ret' = lcm(args[1], args[2])
    /\ pc' = "lcm_done"
    /\ UNCHANGED <<heap, parsed, moons, step, i, part1, history, period, part2, args>>

\* lcms(a, b, c), lines 113-115
CallLcms ==
    /\ pc = "p2_lcms"
    /\ ret' = lcms(args)
    /\ pc' = "lcms_done"
    /\ UNCHANGED <<heap, parsed, moons, step, i, part1, history, period, part2, args>>

NextLcm ==
    \/ CallLcm
    \/ CallLcms
    \/ P2Lcms

SpecLcm == InitLcm /\ [][NextLcm]_vars

----------------------------------------------------------------------------
(* Lines 99-105 and 118-123: the input file is read and parsed.  A str is  *)
(* modelled as the sequence of its characters, an exception that is raised *)
(* as a record with the field raises.                                      *)

Raise(e) == [raises |-> e]

Raises(r) == "raises" \in DOMAIN r

Min(S) == CHOOSE x \in S : \A y \in S : x <= y

\* the characters of s at the indices in keep, in their order
Pick(s, keep) ==
    [j \in 1..Cardinality(keep) |->
        s[CHOOSE k \in keep : Cardinality({l \in keep : l <= k}) = j]]

\* s.replace(c, ""), c one character
RemoveChar(s, c) == Pick(s, {k \in 1..Len(s) : s[k] # c})

\* s.replace(ab, ""), ab the two different characters a and b: the
\* occurrences cannot overlap, and what is left is not scanned again
RemovePair(s, a, b) ==
    LET at(k) == k >= 1 /\ k < Len(s) /\ s[k] = a /\ s[k + 1] = b
    IN  Pick(s, {k \in 1..Len(s) : ~at(k) /\ ~at(k - 1)})

\* s.split(c): the fields between the occurrences of c, at least one
split(s, c) ==
    LET cut == {0} \cup {k \in 1..Len(s) : s[k] = c} \cup {Len(s) + 1}
        nth(j) == CHOOSE k \in cut : Cardinality({l \in cut : l < k}) = j - 1
    IN  [j \in 1..(Cardinality(cut) - 1) |-> SubSeq(s, nth(j) + 1, nth(j + 1) - 1)]

\* s.strip(), the blank being the only whitespace of the lines of the model
strip(s) ==
    LET ns == {k \in 1..Len(s) : s[k] # " "}
    IN  IF ns = {} THEN << >> ELSE SubSeq(s, Min(ns), Max(ns))

DigitChars == <<"0", "1", "2", "3", "4", "5", "6", "7", "8", "9">>

IsDigit(c) == \E d \in 1..10 : DigitChars[d] = c

DigitValue(c) == (CHOOSE d \in 1..10 : DigitChars[d] = c) - 1

IsSign(c) == c = "+" \/ c = "-"

\* the digits of s, s without its sign
Unsigned(s) == IF s # << >> /\ IsSign(s[1]) THEN Tail(s) ELSE s

\* the strings int() takes: an optional sign and at least one digit (the
\* lines of the model hold no underscore and, when int() is called, no blank)
IsIntLiteral(s) ==
    /\ Unsigned(s) # << >>
    /\ \A k \in 1..Len(Unsigned(s)) : IsDigit(Unsigned(s)[k])

RECURSIVE DecimalValue(_)
DecimalValue(s) ==
    IF s = << >> THEN 0
    ELSE 10 * DecimalValue(SubSeq(s, 1, Len(s) - 1)) + DigitValue(s[Len(s)])

\* int(s)
int(s) ==
    IF ~IsIntLiteral(s) THEN Raise("ValueError")
    ELSE [value |-> IF s[1] = "-" THEN 0 - DecimalValue(Unsigned(s))
                                  ELSE DecimalValue(Unsigned(s))]

\* lines 102-104: int(vec[k - 1].replace(label, "")), label being x=, y=, z=
Coordinate(vec, k) ==
    IF Len(vec) < k THEN Raise("IndexError")
    ELSE int(RemovePair(vec[k], Axes[k], "="))

\* lines 99-105
parse_vec(string) ==
    LET vec == split(RemoveChar(RemoveChar(RemoveChar(string, "<"), ">"), " "), ",")
        x == Coordinate(vec, 1)
        y == Coordinate(vec, 2)
        z == Coordinate(vec, 3)
    IN  IF Raises(x) THEN x
        ELSE IF Raises(y) THEN y
        ELSE IF Raises(z) THEN z
        ELSE Vector3(x.value, y.value, z.value)

\* the lines of the input files of the model: with and without each bracket,
\* with the labels x= y= z=, with none, in another order and with x= three
\* times, with a first value that is or is not an integer, with 2..MaxFields
\* fields
Brackets(c) == {<<c>>, << >>}

Labels ==
    {<<"x", "y", "z">>, <<"", "", "">>, <<"y", "x", "z">>, <<"x", "x", "x">>}

FirstValues == {<<"1">>, <<"-", "2">>, <<"+", "3">>, <<"a">>, << >>}

Values(v) == <<v, <<"0">>, <<"-", "1">>, <<"4">>, <<"5">>>>

FieldLabels(l) == <<l[1], l[2], l[3], "w", "w">>

Labelled(l, v) == IF l = "" THEN v ELSE <<l, "=">> \o v

RECURSIVE Fields(_, _, _)
Fields(l, v, n) ==
    IF n = 1 THEN Labelled(l[1], v[1])
    ELSE Fields(l, v, n - 1) \o <<",", " ">> \o Labelled(l[n], v[n])

Lines ==
    {open \o Fields(FieldLabels(l), Values(v), n) \o close :
        open \in Brackets("<"), close \in Brackets(">"),
        l \in Labels, v \in FirstValues, n \in 2..MaxFields}

\* <x=1, y=0, z=-1>
GoodLine == <<"<">> \o Fields(<<"x", "y", "z">>, Values(<<"1">>), 3) \o <<">">>

\* the input files: one line, or GoodLine and one more line
Files == {<<l>> : l \in Lines} \cup {<<GoodLine, l>> : l \in Lines}

\* the program before line 118, args being the lines of the input file
InitParse ==
    /\ args \in Files
    /\ pc = "read"
    /\ parsed = << >>
    /\ moons = << >>
    /\ step = 0
    /\ i = 0
    /\ part1 = None
    /\ history = << >>
    /\ period = << >>
    /\ part2 = None
    /\ ret = None
    /\ heap = << >>

\* lines 118-124: every line is stripped, then every line is parsed, then the
\* moons and the System are built; an exception ends the script
ReadFile ==
    /\ pc = "read"
    /\ LET stripped == [k \in 1..Len(args) |-> strip(args[k])]
           vectors == [k \in 1..Len(args) |-> parse_vec(stripped[k])]
           failed == {k \in 1..Len(args) : Raises(vectors[k])}
       IN  IF failed # {}
           THEN /\ ret' = vectors[Min(failed)]
                /\ pc' = "error"
                /\ UNCHANGED <<parsed, moons>>
           ELSE /\ parsed' = vectors
                /\ moons' = [k \in 1..Len(vectors) |-> Moon(vectors[k])]
                /\ pc' = "p1_gravity"
                /\ ret' = ret
    /\ UNCHANGED <<heap, step, i, part1, history, period, part2, args>>

NextParse ==
    \/ ReadFile
    \/ Next

SpecParse == InitParse /\ [][NextParse]_vars

----------------------------------------------------------------------------
(* What the claims are stated with.                                        *)

\* one advance: apply_gravity() and then tick()
advance(ms) == tick(apply_gravity(ms))

\* n advances
RECURSIVE AdvanceN(_, _)
AdvanceN(ms, n) ==
    IF ms = << >> \/ n = 0 THEN ms
    ELSE IF n = 1 THEN advance(ms)
    ELSE AdvanceN(AdvanceN(ms, n \div 2), n - n \div 2)

\* the moons as line 123 builds them from the parsed input
InputMoons == [k \in 1..Len(parsed) |-> Moon(parsed[k])]

\* the least k >= n such that s is s0, s being s0 after n advances
RECURSIVE FirstReturn(_, _, _)
FirstReturn(s0, s, n) ==
    IF s = s0 THEN n ELSE FirstReturn(s0, advance(s), n + 1)

RECURSIVE SumVelocity(_, _)
SumVelocity(ms, k) ==
    IF k = 0 THEN ZeroVec ELSE add(ms[k].velocity, SumVelocity(ms, k - 1))

TotalVelocity(ms) == SumVelocity(ms, Len(ms))

Coord(v, a) == IF a = "x" THEN v.x ELSE IF a = "y" THEN v.y ELSE v.z

\* a * b / gcd(a, b) in exact integer arithmetic
ExactLcm(a, b) ==
    LET g == gcd(a, b)
        p == BigMul(a, b)
    IN  Then(<<a, b, g, p>>, DivMod(p, g).q)

\* C1: PART 2 starts, at its step 0, from the parsed positions and zero
\* velocities: the 1000 advances of PART 1 leave the moons it starts from unchanged.
Part2StartsFromInput ==
    (pc = "p2_check" /\ step = 0) => moons = InputMoons

\* C2: the PART 2 result is the least k >= 1 such that the full state after k
\* advances from the input configuration (zero velocities) is that
\* configuration.  Each axis being back at its start every period[k] advances
\* (C5), that k is the least common multiple of the three periods: every
\* period divides it, and it is a * b / gcd(a, b) taken twice, exactly.
Part2IsLeastCommonPeriod ==
    pc = "done" =>
        LET ab == ExactLcm(ToBig(period[1][1]), ToBig(period[2][1]))
        IN  /\ ab # << >>
            /\ \A k \in 1..3 : DivMod(part2, ToBig(period[k][1])).r = << >>
            /\ part2 = ExactLcm(ab, ToBig(period[3][1]))

\* C2 on the inputs of the model, whose periods are small: the result is the
\* least k, found by running the moons until the input configuration returns.
Part2IsFullPeriod ==
    pc = "done" => part2 = ToBig(FirstReturn(InputMoons, advance(InputMoons), 1))

Part2IsFullPeriodWitness ==
    /\ pc = "done"
    /\ part2 = ToBig(12)
    /\ period = <<Some(6), Some(4), Some(1)>>

\* C3: PART 1 makes exactly 1000 advances, each apply_gravity() and then
\* tick(), and reports the energy of the state after the 1000th advance from
\* the input configuration; the step counter is then 1000.
Part1Result ==
    /\ pc \in {"p1_gravity", "p1_tick"} => (i < 1000 /\ step = i /\ part1 = None)
    /\ pc = "p2_reset" =>
          LET final == AdvanceN(InputMoons, 1000)
          IN  /\ i = 1000
              /\ step = 1000
              /\ moons = final
              /\ part1 = Some(energy(final))

Part1ResultWitness ==
    /\ pc = "p2_reset"
    /\ Len(moons) = 2
    /\ part1 # Some(0)

\* what is left to run: it falls with every statement the script executes
Variant ==
    CASE pc = "p1_gravity" -> 3 * MaxStep + 8 + 2 * (Part1Steps - i)
      [] pc = "p1_tick"    -> 3 * MaxStep + 7 + 2 * (Part1Steps - i)
      [] pc = "p1_energy"  -> 3 * MaxStep + 7
      [] pc = "p2_reset"   -> 3 * MaxStep + 6
      [] pc = "p2_check"   -> 3 * (MaxStep - step) + 5
      [] pc = "p2_gravity" -> 3 * (MaxStep - step) + 4
      [] pc = "p2_tick"    -> 3 * (MaxStep - step) + 3
      [] pc = "p2_lcms"    -> 1
      [] OTHER             -> 0

\* tick() is the one statement the model can refuse: PART 2 is cut off
CutOff == pc = "p2_tick" /\ step >= MaxStep

\* C4: the PART 2 loop terminates for every input: every statement the script
\* runs brings its end nearer, and the loop is never cut off with a period
\* still unknown, so the script runs on until all three periods are known.
Part2Terminates ==
    [][Variant' < Variant /\ ~CutOff']_vars

Part2TerminatesWitness ==
    /\ pc = "done"
    /\ step = 8
    /\ period[1] = Some(8)

\* C5: when PART 2 records a period n for an axis, the state of that axis after
\* n advances from the state the run started in is the state it started in,
\* and after no j advances, 0 < j < n: the first duplicate is a return to the
\* state of step 0 and n is the length of the axis's cycle.
FirstDuplicateIsReturn ==
    [][\A k \in 1..3 :
         (pc = "p2_check" /\ period[k] = None /\ period'[k] # None) =>
            LET n  == period'[k][1]
                s0 == AdvanceN(InputMoons, 1000)
            IN  /\ n >= 1
                /\ moons = AdvanceN(s0, n)
                /\ state(moons)[k] = state(s0)[k]
                /\ \A j \in 1..(n - 1) : state(AdvanceN(s0, j))[k] # state(s0)[k]]_vars

FirstDuplicateIsReturnWitness ==
    /\ pc = "p2_gravity"
    /\ period[1] = Some(4)
    /\ period[2] = None
    /\ period[3] = Some(1)

\* C6: lcm(a, b) is exactly a * b / gcd(a, b) and lcms(a, b, c) is exactly
\* lcm(lcm(a, b), c), the least common multiple, whatever the size of the operands.
LcmExact ==
    /\ pc = "lcm_done" => ret = ExactLcm(args[1], args[2])
    /\ pc = "lcms_done" =>
          LET ab == ExactLcm(args[1], args[2])
          IN  ab # << >> /\ ret = ExactLcm(ab, args[3])

\* C7: apply_gravity() leaves the sum of the velocities of all moons as it
\* was, in any state of a System (so that it stays zero from a start at rest,
\* tick() not changing a velocity).
GravityKeepsTotalVelocity ==
    [][/\ pc' = "sys_gravity" => TotalVelocity(moons') = TotalVelocity(moons)
       /\ TotalVelocity(moons) = ZeroVec => TotalVelocity(moons') = ZeroVec]_vars

GravityKeepsTotalVelocityWitness ==
    /\ pc = "sys_gravity"
    /\ Len(moons) = 3
    /\ TotalVelocity(moons) # ZeroVec
    /\ moons[1].position.x < moons[2].position.x
    /\ moons[1].velocity.x > 0

\* C8: apply_gravity() handles each unordered pair of moons once, n(n-1)/2
\* pairs: the velocity of each moon changes on each axis by the number of other
\* moons further up that axis minus the number of other moons further down.
GravityCountsNeighbours ==
    [][(pc' = "sys_gravity" /\ i' = i + 1) =>
         LET n   == Len(moons)
             prs == combinations(n)
         IN  /\ 2 * Len(prs) = n * (n - 1)
             /\ {prs[k] : k \in 1..Len(prs)} =
                    {pr \in (1..n) \X (1..n) : pr[1] < pr[2]}
             /\ Len(moons') = n
             /\ \A k \in 1..n : \A a \in {"x", "y", "z"} :
                    Coord(moons'[k].velocity, a) - Coord(moons[k].velocity, a) =
                        Cardinality({j \in 1..n : Coord(moons[j].position, a) >
                                                    Coord(moons[k].position, a)})
                      - Cardinality({j \in 1..n : Coord(moons[j].position, a) <
                                                    Coord(moons[k].position, a)})]_vars

GravityCountsNeighboursWitness ==
    /\ pc = "sys_gravity"
    /\ i = 1
    /\ step = 0
    /\ Len(moons) = 3
    /\ moons[1].position.x < moons[2].position.x
    /\ moons[2].position.x < moons[3].position.x
    /\ moons[1].velocity.x = 2
    /\ moons[3].velocity.x = -2

\* C9: tick() adds exactly 1 to the step counter, moves every moon by its
\* velocity and leaves every velocity as it was.
TickMovesEveryMoon ==
    [][pc' = "sys_tick" =>
         /\ step' = step + 1
         /\ Len(moons') = Len(moons)
         /\ \A k \in 1..Len(moons) :
              /\ moons'[k].velocity = moons[k].velocity
              /\ \A a \in {"x", "y", "z"} :
                    Coord(moons'[k].position, a) =
                        Coord(moons[k].position, a) + Coord(moons[k].velocity, a)]_vars

TickMovesEveryMoonWitness ==
    /\ pc = "sys_tick"
    /\ step = 2
    /\ Len(moons) = 2
    /\ moons[1].velocity.y = 1
    /\ moons[1].position.y = 2

\* C10: PART 2 on a single moon, wherever it starts, records period 1 on each
\* of the three axes, and its result is 1.
SingleMoonPeriodOne ==
    (pc = "done" /\ Len(parsed) = 1) =>
        /\ period = <<Some(1), Some(1), Some(1)>>
        /\ step = 1
        /\ part2 = ToBig(1)

SingleMoonPeriodOneWitness ==
    /\ pc = "done"
    /\ Len(parsed) = 1
    /\ parsed[1] = Vector3(1, 2, 0)
    /\ part2 = ToBig(1)

\* the optionally-signed base-10 integers that the lines of the model hold
Literals == {<<"0">>, <<"1">>, <<"-", "1">>, <<"-", "2">>, <<"+", "3">>}

\* the line is <x=I, y=I, z=I>, each I an optionally-signed base-10 integer
ExactForm(line) ==
    \E a, b, c \in Literals :
        line = <<"<">> \o Fields(<<"x", "y", "z">>, <<a, b, c>>, 3) \o <<">">>

\* C11: parsing fails, and no simulation is run, for every input line that is
\* not of the exact form <x=I, y=I, z=I>: once the file is read without an
\* error, every line of it is of that form.
ParseRejectsInexact ==
    pc \notin {"read", "error"} => \A k \in 1..Len(args) : ExactForm(args[k])

\* C11, the part that holds: a line that raises ends the script, with no
\* moon built and no step made.
ParseErrorRunsNothing ==
    pc = "error" => (Raises(ret) /\ moons = << >> /\ step = 0 /\ part1 = None)

ParseErrorRunsNothingWitness ==
    /\ pc = "error"
    /\ Len(args) = 2
    /\ ret = Raise("IndexError")

\* |v.x| + |v.y| + |v.z|
Magnitude(v) ==
    (IF v.x < 0 THEN 0 - v.x ELSE v.x) + (IF v.y < 0 THEN 0 - v.y ELSE v.y)
        + (IF v.z < 0 THEN 0 - v.z ELSE v.z)

\* the sum over the moons in S of (|px|+|py|+|pz|) * (|vx|+|vy|+|vz|)
RECURSIVE EnergySum(_, _)
EnergySum(ms, S) ==
    IF S = {} THEN 0
    ELSE LET k == CHOOSE n \in S : TRUE
         IN  Magnitude(ms[k].position) * Magnitude(ms[k].velocity)
                 + EnergySum(ms, S \ {k})

\* C12: System.energy() is the sum over all moons of
\* (|px|+|py|+|pz|) * (|vx|+|vy|+|vz|), in every state and as PART 1 reports
\* it; it is 0 whenever every moon's velocity is the zero vector, as it is
\* for a single moon after any number of advances from zero velocity.
EnergyIsSumOfProducts ==
    /\ energy(moons) = EnergySum(moons, 1..Len(moons))
    /\ (\A k \in 1..Len(moons) : moons[k].velocity = ZeroVec) => energy(moons) = 0
    /\ Len(moons) = 1 => (moons[1].velocity = ZeroVec /\ energy(moons) = 0)
    /\ pc = "p2_reset" => part1 = Some(EnergySum(moons, 1..Len(moons)))

EnergyIsSumOfProductsWitness ==
    /\ pc = "p2_reset"
    /\ \E k \in 1..Len(moons) : moons[k].velocity.x < 0 /\ moons[k].position.y > 0
    /\ part1[1] > 1

\* how many of the numbers ps[j] are above ps[k], less how many are below
Pull(ps, k) ==
    Cardinality({j \in 1..Len(ps) : ps[j] > ps[k]})
        - Cardinality({j \in 1..Len(ps) : ps[j] < ps[k]})

\* the gravity adjustment of moon k, computed from the positions ps
Adjustment(ps, k) ==
    Vector3(Pull([j \in 1..Len(ps) |-> ps[j].x], k),
            Pull([j \in 1..Len(ps) |-> ps[j].y], k),
            Pull([j \in 1..Len(ps) |-> ps[j].z], k))

\* the state before the advance that gave ms: the previous position is the
\* position less the velocity, the previous velocity the velocity less the
\* adjustment computed from the previous positions
Undo(ms) ==
    LET ps == [k \in 1..Len(ms) |->
                  Vector3(ms[k].position.x - ms[k].velocity.x,
                          ms[k].position.y - ms[k].velocity.y,
                          ms[k].position.z - ms[k].velocity.z)]
    IN  [k \in 1..Len(ms) |->
            [position |-> ps[k],
             velocity |-> Vector3(ms[k].velocity.x - Adjustment(ps, k).x,
                                  ms[k].velocity.y - Adjustment(ps, k).y,
                                  ms[k].velocity.z - Adjustment(ps, k).z)]]

\* no two of the states of LoopMoons are taken to one state by an advance
AdvanceIsInjective ==
    Cardinality({advance(t) : t \in LoopMoons}) = Cardinality(LoopMoons)

\* C13: one advance (apply_gravity() then tick()) is injective on system
\* states and can be undone: from the state it gives, the state it was made
\* from is found again, whatever state of the System it is made from.
AdvanceCanBeUndone ==
    /\ Undo(advance(moons)) = moons
    /\ AdvanceIsInjective

AdvanceCanBeUndoneWitness ==
    /\ pc = "loop_tick"
    /\ Len(moons) = 3
    /\ \A k \in 1..3 : moons[k].velocity # ZeroVec
    /\ \E k \in 1..3 : advance(moons)[k].velocity # moons[k].velocity
    /\ Undo(advance(moons)) = moons

\* v with the coordinate of axis number a kept and the two others set to c
OnlyAxis(v, a, c) ==
    Vector3(IF a = 1 THEN v.x ELSE c, IF a = 2 THEN v.y ELSE c, IF a = 3 THEN v.z ELSE c)

\* ms with axis number a kept: on the two other axes moon k is put at
\* position c * k with velocity 0 - c * k
OtherAxes(ms, a, c) ==
    [k \in 1..Len(ms) |->
        [position |-> OnlyAxis(ms[k].position, a, c * k),
         velocity |-> OnlyAxis(ms[k].velocity, a, 0 - c * k)]]

\* on each axis, the (position, velocity) pairs after an advance are a
\* function of the pairs before it, over the states of LoopMoons
AxisDeterminesAxis ==
    \A a \in 1..3 :
        Cardinality({<<state(t)[a], state(advance(t))[a]>> : t \in LoopMoons})
            = Cardinality({state(t)[a] : t \in LoopMoons})

\* C14: the dynamics are separable per axis: two states that agree on one
\* axis's (position, velocity) pairs, and differ elsewhere, agree on that
\* axis after one advance each.
AxesAreSeparable ==
    /\ \A a \in 1..3 : \A c \in 0..2 :
          /\ state(OtherAxes(moons, a, c))[a] = state(moons)[a]
          /\ state(advance(OtherAxes(moons, a, c)))[a] = state(advance(moons))[a]
    /\ AxisDeterminesAxis

AxesAreSeparableWitness ==
    /\ pc = "loop_tick"
    /\ Len(moons) = 3
    /\ state(advance(moons))[1] # state(moons)[1]
    /\ state(advance(OtherAxes(moons, 1, 2)))[2] # state(advance(moons))[2]
    /\ state(advance(OtherAxes(moons, 1, 2)))[1] = state(advance(moons))[1]

\* the sequences that hold every element of the sequence prs once
RECURSIVE Orders(_)
Orders(prs) ==
    IF prs = << >> THEN {<< >>}
    ELSE UNION {{<<prs[k]>> \o o :
                    o \in Orders(SubSeq(prs, 1, k - 1) \o SubSeq(prs, k + 1, Len(prs)))} :
                k \in 1..Len(prs)}

\* C15: the velocities after apply_gravity() do not depend on the order in
\* which the unordered pairs of moons are processed: the loop run over the
\* pairs in any order gives the moons that apply_gravity() gives.
GravityOrderIrrelevant ==
    [][pc' = "loop_gravity" =>
          \A o \in Orders(combinations(Len(moons))) : moons' = GravityLoop(moons, o)]_vars

GravityOrderIrrelevantWitness ==
    /\ pc = "loop_gravity"
    /\ Len(moons) = 3
    /\ \E k \in 1..3 :
          /\ \A j \in (1..3) \ {k} : moons[j].position.x > moons[k].position.x
          /\ moons[k].velocity.x = 2

\* the states of axis number k of the n states before ms
RECURSIVE Past(_, _, _)
Past(ms, n, k) ==
    IF n = 0 THEN {}
    ELSE LET prev == Undo(ms)
         IN  Then(prev, {state(prev)[k]} \cup Past(prev, n - 1, k))

\* C16: at the start of every iteration of the PART 2 loop, the step counter
\* being step, the seen-set of each axis whose period is unknown holds exactly
\* the axis states observed at steps 0..step-1, which are pairwise distinct
\* (step elements); the state of step 0 is inserted as first seen and is not
\* reported as a duplicate of itself.  The state observed one step before
\* is Undo of the state observed now, as the first conjunct checks.
SeenSetsHoldThePast ==
    [][/\ pc = "p2_gravity" => Undo(tick(moons')) = moons
       /\ pc' = "p2_check" =>
              \A k \in 1..3 :
                  period'[k] = None =>
                      /\ Axes[k] \in DOMAIN history'
                      /\ history'[Axes[k]] = Past(moons', step', k)
                      /\ Cardinality(history'[Axes[k]]) = step'
       /\ (pc = "p2_check" /\ step = 0) =>
              /\ \A k \in 1..3 : history[Axes[k]] = {}
              /\ period' = <<None, None, None>>
              /\ \A k \in 1..3 : history'[Axes[k]] = {state(moons)[k]}
              /\ pc' = "p2_gravity"]_vars

SeenSetsHoldThePastWitness ==
    /\ pc = "p2_check"
    /\ step >= 3
    /\ \E k \in 1..3 : period[k] # None
    /\ \E k \in 1..3 : period[k] = None /\ Cardinality(history[Axes[k]]) = step

\* every entry of the list p holds a number
Known(p) == \A k \in 1..Len(p) : p[k] # None

\* C17: once an axis's period is set it is never changed, and the PART 2 loop
\* is left in the very iteration in which the last unknown period becomes
\* known, with no further advance: when it is left, the step counter is the
\* greatest of the three recorded periods.
PeriodsAreFinal ==
    [][/\ \A k \in 1..Len(period) : period[k] # None => period'[k] = period[k]
       /\ (pc = "p2_check" /\ Known(period')) =>
              /\ ~Known(period)
              /\ pc' = "p2_lcms"
              /\ moons' = moons
              /\ step' = step
              /\ step = Max({period'[k][1] : k \in 1..3})
       /\ pc' = "p2_lcms" => (pc = "p2_check" /\ Known(period'))
       /\ pc = "p2_lcms" => (pc' = "done" /\ step' = step /\ period' = period)]_vars

PeriodsAreFinalWitness ==
    /\ pc = "p2_lcms"
    /\ period[1] # period[2]
    /\ period[2] # period[3]
    /\ step = period[1][1]
    /\ period[3][1] < period[2][1]

\* C18: despite the one default zero-velocity Vector3 that all moons are
\* given, moons never alias mutable state: apply_gravity() and tick() change
\* no Vector3 object, they bind a moon's own field to a new one; updating one
\* moon never changes another, so that the moons are updated as their values
\* say; two moons share no object but that default; apply_gravity() leaves
\* all positions and the step counter unchanged.
MoonsNeverAlias ==
    [][/\ \A r \in 1..Len(heap) : heap'[r] = heap[r]
       /\ heap'[1] = ZeroVec
       /\ Deref(heap', moons') =
              IF pc' = "heap_gravity" THEN apply_gravity(Deref(heap, moons))
                                      ELSE tick(Deref(heap, moons))
       /\ \A j, k \in 1..Len(moons') :
              /\ moons'[j].position # moons'[k].velocity
              /\ j # k => /\ moons'[j].position # moons'[k].position
                          /\ moons'[j].velocity = moons'[k].velocity
                                 => moons'[j].velocity = 1
       /\ pc' = "heap_gravity" =>
              /\ step' = step
              /\ \A k \in 1..Len(moons) : moons'[k].position = moons[k].position
       /\ pc' = "heap_tick" =>
              /\ step' = step + 1
              /\ \A k \in 1..Len(moons) : moons'[k].velocity = moons[k].velocity]_vars

MoonsNeverAliasWitness ==
    /\ pc = "heap_gravity"
    /\ i = 2
    /\ step = 1
    /\ Len(moons) = 3
    /\ \A j, k \in 1..3 : j # k => moons[j].velocity # moons[k].velocity
    /\ \E k \in 1..3 : heap[moons[k].velocity].x = 2
    /\ heap[1] = ZeroVec

\* C19: no axis period is ever recorded as 0, the seen-sets being empty at
\* step 0, so that all(period) is true exactly when all three periods are
\* known; the loop is left with three known periods.
NoPeriodIsZero ==
    /\ \A k \in 1..Len(period) : period[k] # Some(0)
    /\ Len(period) = 3 => (all(period) <=> Known(period))
    /\ (pc = "p2_check" /\ step = 0) => \A k \in 1..3 : history[Axes[k]] = {}
    /\ pc \in {"p2_lcms", "done"} => (Len(period) = 3 /\ Known(period))
    /\ pc \in {"p2_gravity", "p2_tick"} => ~Known(period)

NoPeriodIsZeroWitness ==
    /\ pc = "p2_gravity"
    /\ step = 1
    /\ \E k \in 1..3 : period[k] = Some(1)
    /\ \E k \in 1..3 : period[k] = None
====
